---- MODULE Spec2Model ----
(***************************************************************************)
(* Model of the CORS proxy of src/main.rs: the origin middleware, the      *)
(* proxy handler with its TTL cache, the preflight handler and the         *)
(* response builders.                                                      *)
(*                                                                         *)
(* Byte strings are sequences of one-byte tokens ("h", "t", ...); a byte   *)
(* outside visible ASCII is the token "0xFF".  An Option<T> is a sequence  *)
(* of length 0 (None) or 1 (Some).  Time is counted in seconds.            *)
(*                                                                         *)
(* reqs is the sequence of the requests received so far, each with its     *)
(* inputs, its handler's position (pc) and its response; cache is the      *)
(* moka cache; outbound is the set of upstream requests issued;             *)
(* github_token is the credential of AppState.  twin is used only by the   *)
(* two-run specification SpecTwin, where it holds the state of a second    *)
(* run of the program; elsewhere it stays NoTwin.                          *)
(***************************************************************************)
EXTENDS Integers, Sequences, FiniteSets, TLC

VARIABLES reqs, cache, outbound, github_token, twin

vars == <<reqs, cache, outbound, github_token, twin>>

(***************************************************************************)
(* Bounds of the model.                                                    *)
(***************************************************************************)
MaxReq == 3
MaxCorsReq == 2
MaxAge == 15
Quantum == 5

(***************************************************************************)
(* Program constants.                                                      *)
(***************************************************************************)
TTL == 10
FORBIDDEN == 403
BAD_GATEWAY == 502
INTERNAL_SERVER_ERROR == 500
OK == 200

None == <<>>
Some(v) == <<v>>
IsSome(o) == Len(o) = 1
Unwrap(o) == o[1]

(***************************************************************************)
(* String literals of the source, as byte sequences.                       *)
(***************************************************************************)
HTTPS == <<"h","t","t","p","s",":","/","/">>
HTTP == <<"h","t","t","p",":","/","/">>
APEX == <<"p","r","i","g","o","a","n","a",".","c","o","m">>
DOT_APEX == <<".","p","r","i","g","o","a","n","a",".","c","o","m">>
STAR == <<"*">>
QMARK == <<"?">>
BASE_URL == <<"h","t","t","p","s",":","/","/","a","p","i",".","g","i","t","h","u","b",
              ".","c","o","m","/","r","e","p","o","s","/">>

(***************************************************************************)
(* str::strip_prefix and str::ends_with.                                   *)
(***************************************************************************)
strip_prefix(s, p) ==
    IF Len(s) >= Len(p) /\ SubSeq(s, 1, Len(p)) = p
    THEN Some(SubSeq(s, Len(p) + 1, Len(s)))
    ELSE None

ends_with(s, suf) ==
    /\ Len(s) >= Len(suf)
    /\ SubSeq(s, Len(s) - Len(suf) + 1, Len(s)) = suf

(***************************************************************************)
(* HeaderValue::to_str: Some(the string) when every byte is visible ASCII, *)
(* None otherwise.  HeaderValue::from_str accepts every byte to_str lets   *)
(* through.                                                                *)
(***************************************************************************)
ObsText == {"0xFF"}

to_str(v) ==
    IF \A i \in 1..Len(v) : v[i] \notin ObsText THEN Some(v) ELSE None

CtlBytes == {"0x7F"}

from_str(s) ==
    IF \A i \in 1..Len(s) : s[i] \notin CtlBytes THEN Some(s) ELSE None

origin_str_lossy(header) == header

(* headers.get("origin").and_then(|v| v.to_str().ok()) *)
origin_str(header) ==
    IF IsSome(header) THEN to_str(Unwrap(header)) ELSE None

(***************************************************************************)
(* is_allowed_origin, main.rs:64-82.                                       *)
(***************************************************************************)
is_allowed_origin_nodot(origin) ==
    IF origin = HTTPS \o APEX \/ origin = HTTP \o APEX
    THEN TRUE
    ELSE IF /\ IsSome(strip_prefix(origin, HTTPS))
            /\ ends_with(Unwrap(strip_prefix(origin, HTTPS)), APEX)
    THEN TRUE
    ELSE IF /\ IsSome(strip_prefix(origin, HTTP))
            /\ ends_with(Unwrap(strip_prefix(origin, HTTP)), APEX)
    THEN TRUE
    ELSE FALSE

is_allowed_origin(origin) ==
    IF origin = HTTPS \o APEX \/ origin = HTTP \o APEX
    THEN TRUE
    ELSE IF /\ IsSome(strip_prefix(origin, HTTPS))
            /\ ends_with(Unwrap(strip_prefix(origin, HTTPS)), DOT_APEX)
    THEN TRUE
    ELSE IF /\ IsSome(strip_prefix(origin, HTTP))
            /\ ends_with(Unwrap(strip_prefix(origin, HTTP)), DOT_APEX)
    THEN TRUE
    ELSE FALSE

(***************************************************************************)
(* Response builders, main.rs:150-181, and the preflight response,         *)
(* main.rs:124-148.                                                        *)
(***************************************************************************)
NoBody == ""

allow_origin_any(header) == STAR

(* .unwrap_or("*") followed by HeaderValue::from_str(..).unwrap_or("*") *)
allow_origin(header) ==
    LET origin == IF IsSome(origin_str(header)) THEN Unwrap(origin_str(header)) ELSE STAR
    IN  IF IsSome(from_str(origin)) THEN Unwrap(from_str(origin)) ELSE STAR

cors_response_stamped(body, header) ==
    [status |-> OK,
     headers |-> [acao |-> github_token,
                  content_type |-> "application/json",
                  cache_control |-> "public, max-age=10"],
     body |-> body]

cors_response(body, header) ==
    [status |-> OK,
     headers |-> [acao |-> allow_origin(header),
                  content_type |-> "application/json",
                  cache_control |-> "public, max-age=10"],
     body |-> body]

error_response(status) ==
    [status |-> status, headers |-> [acao |-> STAR], body |-> NoBody]

preflight_response_short(header) ==
    [status |-> OK,
     headers |-> [acao |-> allow_origin(header),
                  allow_methods |-> "GET",
                  allow_headers |-> "*",
                  max_age |-> "3600"],
     body |-> NoBody]

preflight_response(header) ==
    [status |-> OK,
     headers |-> [acao |-> allow_origin(header),
                  allow_methods |-> "GET, OPTIONS",
                  allow_headers |-> "*",
                  max_age |-> "3600"],
     body |-> NoBody]

(***************************************************************************)
(* The cache key and the upstream URL of proxy_handler, main.rs:90-102.    *)
(***************************************************************************)
cache_key(path, query) ==
    IF IsSome(query) THEN path \o QMARK \o Unwrap(query) ELSE path

upstream_url(path, query) ==
    IF IsSome(query) THEN BASE_URL \o path \o QMARK \o Unwrap(query)
    ELSE BASE_URL \o path

(***************************************************************************)
(* The headers the handler puts on the upstream request, main.rs:104-108:  *)
(* a fixed User-Agent and the credential behind the Bearer scheme.         *)
(***************************************************************************)
USER_AGENT == "rust-cors-proxy/1.0"
BEARER == <<"B","e","a","r","e","r"," ">>

upstream_headers_anonymous(token) == [user_agent |-> USER_AGENT]

upstream_headers(token) ==
    [user_agent |-> USER_AGENT, authorization |-> BEARER \o token]

(***************************************************************************)
(* moka::sync::Cache with time_to_live(10 s), main.rs:29-32.  An entry is  *)
(* visible to get while its age (the time since its insertion) is below    *)
(* the TTL; insert stores or replaces the entry and restarts its age.  The *)
(* model stays far below max_capacity, so no entry is evicted for size.    *)
(* Every entry also remembers the request that inserted it (by), which the *)
(* program does not store: it only names the insertion in the properties.  *)
(***************************************************************************)
cache_live_forever(c, k) == k \in DOMAIN c

cache_live_instant(c, k) == k \in DOMAIN c /\ c[k].age < 1

cache_live(c, k) == k \in DOMAIN c /\ c[k].age < TTL

cache_get(c, k) == IF cache_live(c, k) THEN Some(c[k]) ELSE None

cache_insert_blank(c, k, e) ==
    [x \in (DOMAIN c) \cup {k} |-> IF x = k THEN [e EXCEPT !.body = ""] ELSE c[x]]

cache_insert_absent(c, k, e) ==
    IF cache_live(c, k) THEN c
    ELSE [x \in (DOMAIN c) \cup {k} |-> IF x = k THEN e ELSE c[x]]

cache_insert(c, k, e) ==
    [x \in (DOMAIN c) \cup {k} |-> IF x = k THEN e ELSE c[x]]

(***************************************************************************)
(* Inbound requests of the model.                                          *)
(***************************************************************************)
GOOD == HTTPS \o <<"a","p","p">> \o DOT_APEX
EVIL == HTTPS \o <<"e","v","i","l",".","c","o","m">>
EVIL_OBS == EVIL \o <<"0xFF">>

Methods == {"GET", "OPTIONS"}
Paths == {<<"x">>}
Queries == {Some(<<"r">>)}
OriginHeaders == {None, Some(GOOD), Some(EVIL), Some(EVIL_OBS)}
PipelineOrigins == {Some(GOOD), Some(EVIL)}
Bodies == {"A", "B"}

(* The credential read from GITHUB_TOKEN at startup, main.rs:18-19. *)
TOKEN == <<"s","1">>
Tokens == {TOKEN, <<"s","2">>}

(* Status codes of upstream responses: a 2xx one and another. *)
UpstreamStatuses == {200, 404}

(* The value of twin outside the two-run specification. *)
NoTwin == [turn |-> "off"]

Ids == 1..Len(reqs)

Running == {"Received", "Keyed"}
Awaiting == {"Fetching", "Reading"}
Terminal == {"Denied", "Responded", "Failed"}

(* The requests whose insertion into the cache is less than TTL old. *)
Recent == {i \in Ids : reqs[i].inserts > 0 /\ reqs[i].insAge < TTL}

(* The requests awaiting the upstream that arrived at this instant. *)
Peers == {i \in Ids : reqs[i].pc \in Awaiting /\ reqs[i].fresh}

(***************************************************************************)
(* A request as its task starts.  Besides the inputs, pc and the response, *)
(* a request records what its handler did, for the properties: the key it  *)
(* computed, the body it fetched, its numbers of upstream calls, cache     *)
(* lookups and insertions, whether its lookup hit, the age of the entry    *)
(* its lookup found (-1: no entry), the request that inserted that entry   *)
(* (src), the insertions less than TTL old at its arrival (recent), the    *)
(* requests that arrived at the same instant and were awaiting the         *)
(* upstream at its lookup (peers), whether no time has passed since it     *)
(* began to await the upstream (fresh), and the time since its insertion   *)
(* (insAge), and the status code of the upstream response (upstatus, 0    *)
(* before there is one).                                                   *)
(***************************************************************************)
NewRequest(m, p, q, o) ==
    [method |-> m, path |-> p, query |-> q, origin |-> o,
     pc |-> "Received", key |-> None, resp |-> None, fetched |-> None,
     calls |-> 0, lookups |-> 0, inserts |-> 0,
     hit |-> FALSE, age |-> -1, src |-> 0, recent |-> {}, peers |-> {},
     fresh |-> FALSE, insAge |-> 0, upstatus |-> 0]

Init ==
    /\ reqs = <<>>
    /\ cache = <<>>
    /\ outbound = {}
    /\ github_token = TOKEN
    /\ twin = NoTwin

(***************************************************************************)
(* A request arrives (axum::serve accepts it and spawns its task).  A task *)
(* runs from its arrival to its first await, the upstream call, without    *)
(* suspending, and only its cache lookup touches shared state: the model   *)
(* lets one task at a time take these steps.                               *)
(***************************************************************************)
Receive(m, p, q, o) ==
    /\ \A i \in Ids : reqs[i].pc \notin Running
    /\ reqs' = Append(reqs, [NewRequest(m, p, q, o) EXCEPT !.recent = Recent])
    /\ UNCHANGED <<cache, outbound, github_token>>

(***************************************************************************)
(* cors_middleware, main.rs:48-61: a present, readable and rejected origin *)
(* is answered 403; every other request runs the routed handler.           *)
(***************************************************************************)
cors_rejects_never(header) == FALSE

cors_rejects(header) ==
    /\ IsSome(origin_str(header))
    /\ ~is_allowed_origin(Unwrap(origin_str(header)))

cors_middleware(i) ==
    /\ reqs[i].pc = "Received"
    /\ IF cors_rejects(reqs[i].origin)
       THEN reqs' = [reqs EXCEPT ![i].pc = "Denied",
                                 ![i].resp = Some(error_response(FORBIDDEN))]
       ELSE reqs' = [reqs EXCEPT ![i].pc = "Keyed"]
    /\ UNCHANGED <<cache, outbound, github_token>>

(***************************************************************************)
(* preflight, main.rs:124-148 (the OPTIONS route).                         *)
(***************************************************************************)
preflight(i) ==
    /\ reqs[i].pc = "Keyed"
    /\ reqs[i].method = "OPTIONS"
    /\ reqs' = [reqs EXCEPT ![i].pc = "Responded",
                            ![i].resp = Some(preflight_response(reqs[i].origin))]
    /\ UNCHANGED <<cache, outbound, github_token>>

(***************************************************************************)
(* proxy_handler up to its first await, main.rs:90-109: the cache key, the *)
(* lookup, and on a miss the upstream request.                             *)
(***************************************************************************)
proxy_lookup(i) ==
    LET r == reqs[i]
        k == cache_key(r.path, r.query)
        got == cache_get(cache, k)
        seen == IF k \in DOMAIN cache THEN cache[k].age ELSE -1
    IN  /\ r.pc = "Keyed"
        /\ r.method = "GET"
        /\ IF IsSome(got)
           THEN /\ reqs' = [reqs EXCEPT
                       ![i].pc = "Responded",
                       ![i].key = Some(k),
                       ![i].peers = Peers,
                       ![i].lookups = r.lookups + 1,
                       ![i].hit = TRUE,
                       ![i].age = seen,
                       ![i].src = Unwrap(got).by,
                       ![i].resp = Some(cors_response(Unwrap(got).body, r.origin))]
                /\ UNCHANGED <<outbound, github_token>>
           ELSE /\ reqs' = [reqs EXCEPT
                       ![i].pc = "Fetching",
                       ![i].key = Some(k),
                       ![i].peers = Peers,
                       ![i].lookups = r.lookups + 1,
                       ![i].age = seen,
                       ![i].fresh = TRUE,
                       ![i].calls = r.calls + 1]
                /\ outbound' = outbound \cup
                       {[by |-> i, method |-> "GET",
                         url |-> upstream_url(r.path, r.query),
                         headers |-> upstream_headers(github_token)]}
        /\ UNCHANGED <<cache, github_token>>

(***************************************************************************)
(* .send().await, main.rs:104-113: the upstream answers with its headers,  *)
(* or the call fails and the handler returns 502.                          *)
(***************************************************************************)
send_ok(i, s) ==
    /\ reqs[i].pc = "Fetching"
    /\ reqs' = [reqs EXCEPT ![i].pc = "Reading", ![i].upstatus = s]
    /\ UNCHANGED <<cache, outbound, github_token>>

send_err_caching(i) ==
    /\ reqs[i].pc = "Fetching"
    /\ cache' = cache_insert(cache, Unwrap(reqs[i].key),
                             [body |-> "", age |-> 0, by |-> i])
    /\ reqs' = [reqs EXCEPT ![i].pc = "Failed",
                            ![i].fresh = FALSE,
                            ![i].resp = Some(error_response(BAD_GATEWAY))]
    /\ UNCHANGED <<outbound, github_token>>

send_err_retrying(i) ==
    /\ reqs[i].pc = "Fetching"
    /\ reqs' = [reqs EXCEPT ![i].calls = reqs[i].calls + 1]
    /\ UNCHANGED <<cache, outbound, github_token>>

send_err(i) ==
    /\ reqs[i].pc = "Fetching"
    /\ reqs' = [reqs EXCEPT ![i].pc = "Failed",
                            ![i].fresh = FALSE,
                            ![i].resp = Some(error_response(BAD_GATEWAY))]
    /\ UNCHANGED <<cache, outbound, github_token>>

(***************************************************************************)
(* response.bytes().await, main.rs:115-121: the body arrives, is inserted  *)
(* under the key and returned; or reading fails and the handler returns    *)
(* 500.                                                                    *)
(***************************************************************************)
body_ok_checked(i, b) ==
    LET r == reqs[i]
    IN  /\ r.pc = "Reading"
        /\ IF r.upstatus = OK
           THEN /\ cache' = cache_insert(cache, Unwrap(r.key),
                                         [body |-> b, age |-> 0, by |-> i])
                /\ reqs' = [reqs EXCEPT
                       ![i].pc = "Responded",
                       ![i].fresh = FALSE,
                       ![i].fetched = Some(b),
                       ![i].inserts = r.inserts + 1,
                       ![i].insAge = 0,
                       ![i].resp = Some(cors_response(b, r.origin))]
           ELSE /\ cache' = cache
                /\ reqs' = [reqs EXCEPT
                       ![i].pc = "Failed",
                       ![i].fresh = FALSE,
                       ![i].fetched = Some(b),
                       ![i].resp = Some(error_response(BAD_GATEWAY))]
        /\ UNCHANGED <<outbound, github_token>>

body_ok(i, b) ==
    LET r == reqs[i]
    IN  /\ r.pc = "Reading"
        /\ cache' = cache_insert(cache, Unwrap(r.key),
                                 [body |-> b, age |-> 0, by |-> i])
        /\ reqs' = [reqs EXCEPT
               ![i].pc = "Responded",
               ![i].fresh = FALSE,
               ![i].fetched = Some(b),
               ![i].inserts = r.inserts + 1,
               ![i].insAge = 0,
               ![i].resp = Some(cors_response(b, r.origin))]
        /\ UNCHANGED <<outbound, github_token>>

body_err(i) ==
    /\ reqs[i].pc = "Reading"
    /\ reqs' = [reqs EXCEPT ![i].pc = "Failed",
                            ![i].fresh = FALSE,
                            ![i].resp = Some(error_response(INTERNAL_SERVER_ERROR))]
    /\ UNCHANGED <<cache, outbound, github_token>>

(***************************************************************************)
(* Time passes, by Quantum seconds, while every handler is suspended in an *)
(* await or finished.  Ages are counted up to MaxAge.                      *)
(***************************************************************************)
Older(a) == IF a + Quantum < MaxAge THEN a + Quantum ELSE MaxAge

Tick ==
    /\ \A i \in Ids : reqs[i].pc \notin Running
    /\ \/ \E k \in DOMAIN cache : cache[k].age < MaxAge
       \/ \E i \in Ids : reqs[i].fresh
       \/ \E i \in Ids : reqs[i].inserts > 0 /\ reqs[i].insAge < MaxAge
    /\ cache' = [k \in DOMAIN cache |-> [cache[k] EXCEPT !.age = Older(@)]]
    /\ reqs' = [i \in Ids |->
                 [reqs[i] EXCEPT
                    !.fresh = FALSE,
                    !.insAge = IF reqs[i].inserts > 0 THEN Older(@) ELSE @]]
    /\ UNCHANGED <<outbound, github_token>>

(***************************************************************************)
(* The retrieval pipeline: GET requests for one path, interleaved.         *)
(***************************************************************************)
Next ==
    \/ /\ Len(reqs) < MaxReq
       /\ \E o \in PipelineOrigins : Receive("GET", <<"x">>, None, o)
       /\ UNCHANGED twin
    \/ \E i \in Ids : cors_middleware(i) /\ UNCHANGED twin
    \/ \E i \in Ids : proxy_lookup(i) /\ UNCHANGED twin
    \/ \E i \in Ids : send_ok(i, OK) /\ UNCHANGED twin
    \/ \E i \in Ids : send_err(i) /\ UNCHANGED twin
    \/ \E i \in Ids, b \in Bodies : body_ok(i, b) /\ UNCHANGED twin
    \/ \E i \in Ids : body_err(i) /\ UNCHANGED twin
    \/ Tick /\ UNCHANGED twin

Spec == Init /\ [][Next]_vars

(***************************************************************************)
(* The retrieval pipeline with the progress the runtime guarantees: a task *)
(* that can run its middleware or its handler up to the upstream call does *)
(* so, and time passes.  Nothing makes the upstream answer, and the client *)
(* of main.rs:21-27 is built without a timeout, so no step ends an await   *)
(* on the upstream by itself.                                              *)
(***************************************************************************)
Fairness ==
    /\ WF_vars((\E i \in Ids : cors_middleware(i)) /\ UNCHANGED twin)
    /\ WF_vars((\E i \in Ids : proxy_lookup(i)) /\ UNCHANGED twin)
    /\ WF_vars(Tick /\ UNCHANGED twin)

SpecLive == Init /\ [][Next]_vars /\ Fairness

(***************************************************************************)
(* The same handlers under every kind of inbound request: both routed      *)
(* methods (here with a query), every kind of Origin header.               *)
(***************************************************************************)
NextCors ==
    \/ /\ Len(reqs) < MaxCorsReq
       /\ \E m \in Methods, p \in Paths, q \in Queries, o \in OriginHeaders :
             Receive(m, p, q, o)
       /\ UNCHANGED twin
    \/ \E i \in Ids : cors_middleware(i) /\ UNCHANGED twin
    \/ \E i \in Ids : preflight(i) /\ UNCHANGED twin
    \/ \E i \in Ids : proxy_lookup(i) /\ UNCHANGED twin
    \/ \E i \in Ids : send_ok(i, OK) /\ UNCHANGED twin
    \/ \E i \in Ids : send_err(i) /\ UNCHANGED twin
    \/ \E i \in Ids, b \in Bodies : body_ok(i, b) /\ UNCHANGED twin
    \/ \E i \in Ids : body_err(i) /\ UNCHANGED twin
    \/ Tick /\ UNCHANGED twin

SpecCors == Init /\ [][NextCors]_vars

(***************************************************************************)
(* The Origin Policy on a wide set of origin strings: one request, of      *)
(* either method, carrying the origin, goes through cors_middleware.       *)
(***************************************************************************)
Schemes == {HTTPS, HTTP, <<"f","t","p",":","/","/">>, <<"h","t","t","p","s",":","/">>, <<>>}
HostParts == {<<>>, <<"a","p","p">>, <<"e","v","i","l">>, <<"a",".","b">>,
              <<"e","v","i","l",".","c","o","m","/","x">>,
              <<"e","v","i","l",".","c","o","m",":","8","0">>}
Joints == {<<>>, <<".">>}
Apexes == {APEX, <<"p","r","i","g","o","a","n","a",".","c","o">>}
Tails == {<<>>, <<":","8","0","8","0">>, <<"/","x">>, <<".">>, <<"m">>}

PolicyOrigins ==
    {s \o h \o j \o a \o t :
        s \in Schemes, h \in HostParts, j \in Joints, a \in Apexes, t \in Tails}

InitPolicy ==
    /\ reqs \in {<<NewRequest(m, <<"x">>, None, Some(o))>> :
                    m \in Methods, o \in PolicyOrigins}
    /\ cache = <<>>
    /\ outbound = {}
    /\ github_token = TOKEN
    /\ twin = NoTwin

NextPolicy == \E i \in Ids : cors_middleware(i) /\ UNCHANGED twin

SpecPolicy == InitPolicy /\ [][NextPolicy]_vars

(***************************************************************************)
(* The cache key on pairs of requests: two admitted GET requests, each     *)
(* with a path and a raw query, compute their keys.                        *)
(***************************************************************************)
KeyPaths == {<<"a">>, <<"a","?">>, <<"a","?","b">>, <<"a","/","b">>}
KeyQueries == {None, Some(<<>>), Some(<<"b">>)}

InitKey ==
    /\ reqs \in {<<NewRequest("GET", p1, q1, None), NewRequest("GET", p2, q2, None)>> :
                    p1 \in KeyPaths, q1 \in KeyQueries,
                    p2 \in KeyPaths, q2 \in KeyQueries}
    /\ cache = <<>>
    /\ outbound = {}
    /\ github_token = TOKEN
    /\ twin = NoTwin

NextKey ==
    \/ \E i \in Ids : cors_middleware(i) /\ UNCHANGED twin
    \/ \E i \in Ids : proxy_lookup(i) /\ UNCHANGED twin

SpecKey == InitKey /\ [][NextKey]_vars

(***************************************************************************)
(* The upstream side: GET requests for one path and query arrive from an   *)
(* allowed origin, and the upstream answers each call either 200 with body *)
(* A or 404 with body B.                                                   *)
(***************************************************************************)
MaxUpstreamReq == 3

UpstreamOrigins == {Some(GOOD)}
UpstreamReplies == {[status |-> 200, body |-> "A"], [status |-> 404, body |-> "B"]}

InitUpstream ==
    /\ reqs = <<>>
    /\ cache = <<>>
    /\ outbound = {}
    /\ github_token = TOKEN
    /\ twin = NoTwin

NextUpstream ==
    \/ /\ Len(reqs) < MaxUpstreamReq
       /\ \E p \in Paths, q \in Queries, o \in UpstreamOrigins :
             Receive("GET", p, q, o)
       /\ UNCHANGED twin
    \/ \E i \in Ids : cors_middleware(i) /\ UNCHANGED twin
    \/ \E i \in Ids : proxy_lookup(i) /\ UNCHANGED twin
    \/ \E i \in Ids, s \in UpstreamStatuses : send_ok(i, s) /\ UNCHANGED twin
    \/ \E i \in Ids : send_err(i) /\ UNCHANGED twin
    \/ \E i \in Ids, r \in UpstreamReplies :
          /\ reqs[i].upstatus = r.status
          /\ body_ok(i, r.body)
          /\ UNCHANGED twin
    \/ \E i \in Ids : body_err(i) /\ UNCHANGED twin
    \/ Tick /\ UNCHANGED twin

SpecUpstream == InitUpstream /\ [][NextUpstream]_vars

(***************************************************************************)
(* The retrieval pipeline on several targets: admitted GET requests whose  *)
(* decoded path may itself contain a question mark, with or without a      *)
(* query.                                                                  *)
(***************************************************************************)
MaxTargetReq == 2

TargetPaths == {<<"x">>, <<"x","?","m">>}
TargetQueries == {None, Some(<<"m">>), Some(<<"d">>)}

NextTargets ==
    \/ /\ Len(reqs) < MaxTargetReq
       /\ \E p \in TargetPaths, q \in TargetQueries : Receive("GET", p, q, None)
       /\ UNCHANGED twin
    \/ \E i \in Ids : cors_middleware(i) /\ UNCHANGED twin
    \/ \E i \in Ids : proxy_lookup(i) /\ UNCHANGED twin
    \/ \E i \in Ids : send_ok(i, OK) /\ UNCHANGED twin
    \/ \E i \in Ids : send_err(i) /\ UNCHANGED twin
    \/ \E i \in Ids, b \in Bodies : body_ok(i, b) /\ UNCHANGED twin
    \/ \E i \in Ids : body_err(i) /\ UNCHANGED twin
    \/ Tick /\ UNCHANGED twin

SpecTargets == Init /\ [][NextTargets]_vars

(***************************************************************************)
(* Two runs of the program side by side, for properties that compare runs. *)
(* The runs start from states that differ only in the credential, receive  *)
(* the same requests, take the same handler steps in the same order, and   *)
(* get the same upstream replies.  The program variables hold the run      *)
(* whose turn it is and twin holds the other: the first run takes a step   *)
(* and notes it in twin.op, the runs are exchanged, the second run takes   *)
(* the step noted, and the runs are exchanged back.                        *)
(***************************************************************************)
MaxTwinReq == 2

NoOp == [name |-> "none", i |-> 0, o |-> None, s |-> 0, b |-> ""]

InitTwin ==
    /\ reqs = <<>>
    /\ cache = <<>>
    /\ outbound = {}
    /\ github_token \in Tokens
    /\ twin \in {[turn |-> "first", op |-> NoOp, reqs |-> <<>>, cache |-> <<>>,
                   outbound |-> {}, github_token |-> t] :
                     t \in Tokens \ {github_token}}

(* The first run has taken the step op. *)
Noted(op) ==
    /\ twin.turn = "first"
    /\ twin' = [twin EXCEPT !.turn = "to_second", !.op = op]

(* The step op, taken by the second run. *)
Again(op) ==
    CASE op.name = "Receive" -> Receive("GET", <<"x">>, Some(<<"r">>), op.o)
      [] op.name = "cors_middleware" -> cors_middleware(op.i)
      [] op.name = "proxy_lookup" -> proxy_lookup(op.i)
      [] op.name = "send_ok" -> send_ok(op.i, op.s)
      [] op.name = "send_err" -> send_err(op.i)
      [] op.name = "body_ok" -> body_ok(op.i, op.b)
      [] op.name = "body_err" -> body_err(op.i)
      [] op.name = "Tick" -> Tick

Second ==
    /\ twin.turn = "second"
    /\ Again(twin.op)
    /\ twin' = [twin EXCEPT !.turn = "to_first"]

Exchange ==
    /\ twin.turn \in {"to_second", "to_first"}
    /\ reqs' = twin.reqs
    /\ cache' = twin.cache
    /\ outbound' = twin.outbound
    /\ github_token' = twin.github_token
    /\ twin' = [twin EXCEPT
           !.turn = IF @ = "to_second" THEN "second" ELSE "first",
           !.reqs = reqs, !.cache = cache, !.outbound = outbound,
           !.github_token = github_token]

NextTwin ==
    \/ /\ Len(reqs) < MaxTwinReq
       /\ \E o \in PipelineOrigins :
             /\ Receive("GET", <<"x">>, Some(<<"r">>), o)
             /\ Noted([NoOp EXCEPT !.name = "Receive", !.o = o])
    \/ \E i \in Ids : cors_middleware(i)
          /\ Noted([NoOp EXCEPT !.name = "cors_middleware", !.i = i])
    \/ \E i \in Ids : proxy_lookup(i)
          /\ Noted([NoOp EXCEPT !.name = "proxy_lookup", !.i = i])
    \/ \E i \in Ids : send_ok(i, OK)
          /\ Noted([NoOp EXCEPT !.name = "send_ok", !.i = i, !.s = OK])
    \/ \E i \in Ids : send_err(i)
          /\ Noted([NoOp EXCEPT !.name = "send_err", !.i = i])
    \/ \E i \in Ids, b \in Bodies : body_ok(i, b)
          /\ Noted([NoOp EXCEPT !.name = "body_ok", !.i = i, !.b = b])
    \/ \E i \in Ids : body_err(i)
          /\ Noted([NoOp EXCEPT !.name = "body_err", !.i = i])
    \/ Tick /\ Noted([NoOp EXCEPT !.name = "Tick"])
    \/ Exchange
    \/ Second

SpecTwin == InitTwin /\ [][NextTwin]_vars

(***************************************************************************)
(*                      Properties of the claims                           *)
(***************************************************************************)
Resp(i) == Unwrap(reqs[i].resp)

Bodyless(status) == [status |-> status, headers |-> [acao |-> STAR], body |-> ""]

(* The request never went past the policy check. *)
StoppedAtPolicy(i) ==
    /\ reqs[i].pc = "Denied"
    /\ reqs[i].resp = Some(Bodyless(403))
    /\ reqs[i].key = None
    /\ reqs[i].lookups = 0 /\ reqs[i].inserts = 0 /\ reqs[i].calls = 0
    /\ \A c \in outbound : c.by # i

(* The origin echoed to a reader of the request's Origin header. *)
Echo(header) ==
    IF IsSome(header) /\ \A k \in 1..Len(Unwrap(header)) : Unwrap(header)[k] # "0xFF"
    THEN Unwrap(header)
    ELSE STAR

Readable(header) ==
    IsSome(header) /\ \A k \in 1..Len(Unwrap(header)) : Unwrap(header)[k] # "0xFF"

(* C1 as stated: a request (GET or OPTIONS) whose Origin header is present, *)
(* whatever bytes it holds, and rejected by the Origin Policy is answered   *)
(* 403 without body, with Access-Control-Allow-Origin: *, and never goes    *)
(* past the policy check (no lookup, no insertion, no upstream call).       *)
C1_AnyBytesRejected ==
    \A i \in Ids :
        ( /\ reqs[i].pc # "Received"
          /\ IsSome(reqs[i].origin)
          /\ ~is_allowed_origin(Unwrap(reqs[i].origin)) )
        => StoppedAtPolicy(i)

(* C1 amended: the same, for an Origin header that is present, holds only   *)
(* visible ASCII (HeaderValue::to_str succeeds) and is rejected by the      *)
(* policy.                                                                  *)
C1_ReadableRejected ==
    \A i \in Ids :
        ( /\ reqs[i].pc # "Received"
          /\ Readable(reqs[i].origin)
          /\ ~is_allowed_origin(Unwrap(reqs[i].origin)) )
        => StoppedAtPolicy(i)

C1_Witness ==
    \E i, j \in Ids :
        /\ reqs[i].method = "GET" /\ reqs[j].method = "OPTIONS"
        /\ reqs[i].origin = Some(EVIL) /\ reqs[j].origin = Some(EVIL)
        /\ reqs[i].pc = "Denied" /\ reqs[j].pc = "Denied"

(* C2 as stated: every response (200, 403, 502, 500) carries               *)
(* Access-Control-Allow-Origin equal to the inbound Origin when present     *)
(* and representable, and * otherwise.                                      *)
C2_EveryResponseEchoes ==
    \A i \in Ids :
        IsSome(reqs[i].resp) => Resp(i).headers.acao = Echo(reqs[i].origin)

(* C2 amended: every 200 response (retrieval or preflight) carries         *)
(* Access-Control-Allow-Origin equal to the inbound Origin when it is      *)
(* present and holds only visible ASCII, and * otherwise; every 403, 502   *)
(* and 500 response carries *.                                             *)
C2_SuccessEchoesErrorsStar ==
    \A i \in Ids :
        IsSome(reqs[i].resp) =>
            IF Resp(i).status = 200
            THEN Resp(i).headers.acao = Echo(reqs[i].origin)
            ELSE Resp(i).status \in {403, 502, 500} /\ Resp(i).headers.acao = STAR

C2_Witness ==
    \E i, j \in Ids :
        /\ reqs[i].origin = Some(GOOD) /\ reqs[j].origin = Some(GOOD)
        /\ reqs[i].pc = "Responded" /\ reqs[i].method = "GET"
        /\ Resp(i).headers.acao = GOOD
        /\ reqs[j].pc = "Failed" /\ Resp(j).status = 502
        /\ Resp(j).headers.acao = STAR

PreflightOk(acao) ==
    [status |-> 200,
     headers |-> [acao |-> acao, allow_methods |-> "GET, OPTIONS",
                  allow_headers |-> "*", max_age |-> "3600"],
     body |-> ""]

NoUpstreamNoCache(i) ==
    /\ reqs[i].lookups = 0 /\ reqs[i].inserts = 0 /\ reqs[i].calls = 0
    /\ \A c \in outbound : c.by # i

(* C3 as stated: every OPTIONS request, for any Origin value, allow-listed *)
(* or not, is answered 200 with the four preflight headers                 *)
(* (Access-Control-Allow-Origin: the inbound Origin if present, else the   *)
(* wildcard),                                                              *)
(* without upstream call or cache access.                                  *)
C3_PreflightAlways200 ==
    \A i \in Ids :
        reqs[i].method = "OPTIONS" =>
            /\ NoUpstreamNoCache(i)
            /\ reqs[i].pc \in Terminal =>
                  reqs[i].resp = Some(PreflightOk(
                      IF IsSome(reqs[i].origin) THEN Unwrap(reqs[i].origin) ELSE STAR))

(* C3 amended: the preflight handler does not consult the policy, but      *)
(* cors_middleware runs before it.  An OPTIONS request whose Origin is     *)
(* absent, not visible ASCII, or admitted by the policy is answered 200    *)
(* with the four preflight headers (Access-Control-Allow-Origin: the       *)
(* Origin if present and visible ASCII, else the wildcard); one whose      *)
(* Origin is                                                               *)
(* present, visible ASCII and rejected is answered 403; neither makes an   *)
(* upstream call or a cache access.                                        *)
C3_PreflightAfterPolicy ==
    \A i \in Ids :
        reqs[i].method = "OPTIONS" =>
            /\ NoUpstreamNoCache(i)
            /\ reqs[i].pc \in Terminal =>
                  IF Readable(reqs[i].origin)
                     /\ ~is_allowed_origin(Unwrap(reqs[i].origin))
                  THEN reqs[i].resp = Some(Bodyless(403))
                  ELSE reqs[i].resp = Some(PreflightOk(Echo(reqs[i].origin)))

C3_Witness ==
    \E i, j \in Ids :
        /\ reqs[i].method = "OPTIONS" /\ reqs[i].origin = Some(GOOD)
        /\ reqs[i].resp = Some(PreflightOk(GOOD))
        /\ reqs[j].method = "OPTIONS" /\ reqs[j].origin = Some(EVIL_OBS)
        /\ reqs[j].resp = Some(PreflightOk(STAR))

(* The admitted GET requests that received a 200 response. *)
Served == {i \in Ids : reqs[i].method = "GET" /\ reqs[i].pc = "Responded"}

(* The request whose upstream fetch produced the body request i received. *)
Source(i) == IF reqs[i].hit THEN reqs[i].src ELSE i

Fetched(k) == \E c \in outbound : c.url = BASE_URL \o k

(* C4 as stated: two admitted GET requests with the same path and query    *)
(* that arrive within the TTL of each other (here: at the same instant)    *)
(* cause at least one upstream fetch and receive byte-equal bodies, under  *)
(* every interleaving, the upstream being free to return different bodies. *)
C4_ByteEqualBodies ==
    \A i, j \in Served :
        ( /\ reqs[i].key = reqs[j].key
          /\ i \in reqs[j].peers )
        => /\ Fetched(Unwrap(reqs[i].key))
           /\ Resp(i).body = Resp(j).body

(* C4 amended: for any two admitted GET requests with the same path and    *)
(* query, at least one upstream fetch is made for the fingerprint, each    *)
(* receives the body of the fetch that served it (its own on a miss, the   *)
(* inserting request's on a hit), and the two bodies are byte-equal when   *)
(* both were served by the same fetch; two requests that both miss each    *)
(* receive their own fetch's body, and these may differ.                   *)
C4_SameFetchSameBody ==
    \A i, j \in Served :
        reqs[i].key = reqs[j].key =>
            /\ Fetched(Unwrap(reqs[i].key))
            /\ Source(i) \in Ids
            /\ reqs[Source(i)].key = reqs[i].key
            /\ Some(Resp(i).body) = reqs[Source(i)].fetched
            /\ Source(i) = Source(j) => Resp(i).body = Resp(j).body

C4_Witness ==
    \E i, j \in Served :
        /\ i # j /\ reqs[i].key = reqs[j].key
        /\ ~reqs[i].hit /\ reqs[j].hit /\ reqs[j].src = i
        /\ Resp(i).body = Resp(j).body

(* Request i inserted its body, and request j, a GET with the same         *)
(* fingerprint and Origin header, began within TTL of that insertion and   *)
(* has its response.                                                       *)
RepeatedWithinTTL(i, j) ==
    /\ i # j
    /\ reqs[i].pc = "Responded" /\ reqs[i].inserts > 0
    /\ reqs[j].method = "GET" /\ reqs[j].pc \in Terminal
    /\ reqs[j].key = reqs[i].key
    /\ reqs[j].origin = reqs[i].origin
    /\ i \in reqs[j].recent

(* C5 as stated: a GET that begins within TTL of the insertion of an       *)
(* earlier GET with the same fingerprint and Origin makes no upstream call *)
(* and receives the same status, headers and body as that earlier GET.     *)
C5_HitEqualsFirst ==
    \A i, j \in Ids :
        RepeatedWithinTTL(i, j) => reqs[j].calls = 0 /\ Resp(j) = Resp(i)

(* C5 amended: such a GET makes no upstream call and receives the same     *)
(* status and headers as the earlier GET; its body is the body of the most *)
(* recent insertion under the fingerprint, which is the earlier GET's body *)
(* unless another request that missed concurrently inserted after it.      *)
C5_HitEqualsLatestInsertion ==
    \A i, j \in Ids :
        RepeatedWithinTTL(i, j) =>
            /\ reqs[j].calls = 0 /\ reqs[j].hit
            /\ Resp(j).status = Resp(i).status
            /\ Resp(j).headers = Resp(i).headers
            /\ reqs[j].src \in Ids
            /\ reqs[reqs[j].src].key = reqs[j].key
            /\ reqs[reqs[j].src].insAge <= reqs[i].insAge
            /\ Some(Resp(j).body) = reqs[reqs[j].src].fetched
            /\ reqs[j].src = i => Resp(j) = Resp(i)

C5_Witness ==
    \E i, j \in Ids :
        /\ RepeatedWithinTTL(i, j)
        /\ reqs[j].src = i /\ reqs[j].age > 0
        /\ Resp(j) = Resp(i)

(* C6: a lookup that returns a blob returns an entry at most TTL (10 s)    *)
(* old; a lookup that finds an entry older than TTL takes the miss path    *)
(* and issues an upstream fetch.                                           *)
C6_HitsAreYoung ==
    \A i \in Ids :
        /\ reqs[i].hit => 0 <= reqs[i].age /\ reqs[i].age <= 10
        /\ (reqs[i].lookups > 0 /\ reqs[i].age > 10) =>
              /\ ~reqs[i].hit
              /\ reqs[i].calls = 1
              /\ reqs[i].pc \in Awaiting \cup {"Responded", "Failed"}
              /\ \E c \in outbound : c.by = i

C6_Witness ==
    \E i, j \in Ids :
        /\ reqs[i].hit /\ reqs[i].age > 0
        /\ ~reqs[j].hit /\ reqs[j].age > 10 /\ reqs[j].calls = 1

(* C7: when the upstream call of an admitted GET fails, the cache is left  *)
(* unchanged and the response has no body and                              *)
(* Access-Control-Allow-Origin: *; a send failure gives 502, a body read   *)
(* failure 500; nothing is inserted for the request.                       *)
C7_FailureLeavesCache ==
    [][ \A i \in Ids :
          (reqs[i].pc \in Awaiting /\ reqs'[i].pc = "Failed") =>
              /\ cache' = cache
              /\ reqs'[i].inserts = 0
              /\ reqs'[i].resp =
                    Some(Bodyless(IF reqs[i].pc = "Fetching" THEN 502 ELSE 500)) ]_vars

C7_Witness ==
    \E i, j \in Ids :
        /\ reqs[i].pc = "Failed" /\ Resp(i).status = 502
        /\ reqs[j].pc = "Failed" /\ Resp(j).status = 500
        /\ reqs[i].origin = Some(GOOD)
        /\ Unwrap(reqs[i].key) \notin DOMAIN cache

(* C8: the cache key is injective on (path, query): two requests get the   *)
(* same key if and only if their paths and raw queries are byte-equal.     *)
C8_KeyInjective ==
    \A i, j \in Ids :
        (IsSome(reqs[i].key) /\ IsSome(reqs[j].key)) =>
            ( reqs[i].key = reqs[j].key
              <=> (reqs[i].path = reqs[j].path /\ reqs[i].query = reqs[j].query) )

(* The origins the policy is specified to accept. *)
PolicyAccepts(o) ==
    \/ o = HTTPS \o APEX
    \/ o = HTTP \o APEX
    \/ \E sch \in {HTTPS, HTTP} : \E n \in 0..Len(o) :
          /\ Len(o) = Len(sch) + n + 13
          /\ SubSeq(o, 1, Len(sch)) = sch
          /\ SubSeq(o, Len(sch) + n + 1, Len(o)) =
                <<".","p","r","i","g","o","a","n","a",".","c","o","m">>

(* C9: the policy admits an origin iff it is exactly https://prigoana.com *)
(* or http://prigoana.com, or has scheme https:// or http:// and the rest  *)
(* ends in .prigoana.com; https://evilprigoana.com is rejected; the        *)
(* decision is the same whatever the method.                               *)
C9_PolicyDecision ==
    \A i \in Ids :
        reqs[i].pc # "Received" =>
            /\ reqs[i].pc = "Keyed" <=> PolicyAccepts(Unwrap(reqs[i].origin))
            /\ reqs[i].pc = "Denied" <=> ~PolicyAccepts(Unwrap(reqs[i].origin))
            /\ Unwrap(reqs[i].origin) = HTTPS \o <<"e","v","i","l">> \o APEX
                  => reqs[i].pc = "Denied"

C9_Witness ==
    \E i \in Ids :
        /\ reqs[i].origin = Some(HTTPS \o <<"e","v","i","l">> \o APEX)
        /\ reqs[i].pc = "Denied"

(* The part of an origin after its scheme separator. *)
AfterScheme(o) ==
    LET ks == {k \in 1..Len(o) : k + 2 <= Len(o) /\ SubSeq(o, k, k + 2) = <<":","/","/">>}
    IN  IF ks = {} THEN o
        ELSE SubSeq(o, (CHOOSE k \in ks : \A m \in ks : k <= m) + 3, Len(o))

HasPortOrPath(o) ==
    \E k \in 1..Len(AfterScheme(o)) : AfterScheme(o)[k] \in {":", "/"}

(* C10: every origin that carries a port or a path after the host is       *)
(* rejected by the policy and answered 403.                                *)
C10_PortOrPathRejected ==
    \A i \in Ids :
        (reqs[i].pc # "Received" /\ HasPortOrPath(Unwrap(reqs[i].origin))) =>
            /\ reqs[i].pc = "Denied"
            /\ reqs[i].resp = Some(Bodyless(403))

(***************************************************************************)
(* C11: every upstream request is a GET to the base URL followed by the    *)
(* fingerprint of the request that issued it, and carries exactly two      *)
(* headers: User-Agent: rust-cors-proxy/1.0 and Authorization: Bearer      *)
(* followed by the credential loaded at startup.  No header of the inbound *)
(* request, Origin included, is among them.                                *)
(***************************************************************************)
C11_UpstreamRequestShape ==
    \A c \in outbound :
        /\ c.by \in Ids
        /\ c.method = "GET"
        /\ IsSome(reqs[c.by].key)
        /\ c.url = <<"h","t","t","p","s",":","/","/","a","p","i",".",
                     "g","i","t","h","u","b",".","c","o","m","/",
                     "r","e","p","o","s","/">> \o Unwrap(reqs[c.by].key)
        /\ DOMAIN c.headers = {"user_agent", "authorization"}
        /\ c.headers.user_agent = "rust-cors-proxy/1.0"
        /\ c.headers.authorization =
               <<"B","e","a","r","e","r"," ">> \o github_token
        /\ IsSome(reqs[c.by].origin) =>
               c.headers.authorization # Unwrap(reqs[c.by].origin)

(* Under either credential, a request with an Origin header and a query    *)
(* has called the upstream.                                                *)
C11_Witness ==
    \E c \in outbound, d \in twin.outbound :
        /\ c.headers.authorization # d.headers.authorization
        /\ reqs[c.by].origin = Some(GOOD)
        /\ IsSome(reqs[c.by].query)
        /\ reqs[c.by].calls = 1

(***************************************************************************)
(* C12: the credential never flows to a client.  Two runs that differ only *)
(* in the credential and see the same requests, the same schedule and the  *)
(* same upstream replies produce the same responses (status, headers and   *)
(* body) and the same cache; the second run can always take the step the   *)
(* first took.  In each run the credential occurs in the Authorization     *)
(* header of the upstream requests and nowhere else: not in a response     *)
(* header or body, a cache entry, or an upstream URL.                      *)
(***************************************************************************)
Occurs(t, v) == \E k \in 0..(Len(v) - Len(t)) : SubSeq(v, k + 1, k + Len(t)) = t

Responses(rs) == [i \in DOMAIN rs |-> rs[i].resp]

Entries(c) == [k \in DOMAIN c |-> [body |-> c[k].body, age |-> c[k].age]]

Calls(ob) == {[by |-> c.by, method |-> c.method, url |-> c.url] : c \in ob}

FixedHeaderValues == {"application/json", "public, max-age=10"}

Confined ==
    /\ \A i \in Ids :
          IsSome(reqs[i].resp) =>
             /\ ~Occurs(github_token, Resp(i).headers.acao)
             /\ \A h \in DOMAIN Resp(i).headers \ {"acao"} :
                    Resp(i).headers[h] \in FixedHeaderValues
             /\ Resp(i).body \in Bodies \cup {NoBody}
    /\ \A k \in DOMAIN cache : cache[k].body \in Bodies
    /\ \A c \in outbound :
          /\ ~Occurs(github_token, c.url)
          /\ \A h \in DOMAIN c.headers \ {"authorization"} :
                 c.headers[h] = "rust-cors-proxy/1.0"

C12_CredentialNeverFlows ==
    /\ Confined
    /\ twin.turn = "second" => ENABLED Second
    /\ twin.turn = "first" =>
          /\ github_token # twin.github_token
          /\ Responses(reqs) = Responses(twin.reqs)
          /\ Entries(cache) = Entries(twin.cache)
          /\ Calls(outbound) = Calls(twin.outbound)

(* Both runs have answered a miss and then a hit from the cache, and their *)
(* upstream requests carried different credentials.                        *)
C12_Witness ==
    /\ twin.turn = "first"
    /\ \E i, j \in Ids :
          /\ reqs[i].pc = "Responded" /\ ~reqs[i].hit
          /\ reqs[j].pc = "Responded" /\ reqs[j].hit /\ reqs[j].src = i
          /\ twin.reqs[j].pc = "Responded" /\ twin.reqs[j].hit
    /\ \E c \in outbound, d \in twin.outbound :
          c.headers.authorization # d.headers.authorization

(***************************************************************************)
(* C13: the upstream status is not inspected.  Whenever the upstream has   *)
(* returned a complete body, with status 200 or 404 alike, the handler has *)
(* inserted the body under its fingerprint and answered 200 with that      *)
(* body, and every request that arrives less than TTL after that insertion *)
(* and hits the cache is answered 200 with that same body.                 *)
(***************************************************************************)
C13_LaterHitsSameBody ==
    \A i \in Ids :
        IsSome(reqs[i].fetched) =>
           /\ reqs[i].inserts = 1
           /\ Resp(i).status = 200
           /\ Resp(i).body = Unwrap(reqs[i].fetched)
           /\ \A j \in Ids :
                  (reqs[j].hit /\ reqs[j].key = reqs[i].key /\ i \in reqs[j].recent) =>
                     /\ Resp(j).status = 200
                     /\ Resp(j).body = Unwrap(reqs[i].fetched)

(***************************************************************************)
(* C13, amended: as above, except that a later request that hits the cache *)
(* is answered 200 with the body of the insertion it read, which was less  *)
(* than TTL old: the most recent one under the fingerprint.  No response   *)
(* carries the upstream's status.                                          *)
(***************************************************************************)
C13_StatusNotInspected ==
    /\ \A i \in Ids :
          IsSome(reqs[i].fetched) =>
             /\ reqs[i].upstatus \in UpstreamStatuses
             /\ reqs[i].pc = "Responded"
             /\ reqs[i].inserts = 1
             /\ Unwrap(reqs[i].key) \in DOMAIN cache
             /\ cache[Unwrap(reqs[i].key)].by = i =>
                    cache[Unwrap(reqs[i].key)].body = Unwrap(reqs[i].fetched)
             /\ Resp(i).status = 200
             /\ Resp(i).body = Unwrap(reqs[i].fetched)
    /\ \A j \in Ids :
          reqs[j].hit =>
             /\ reqs[j].src \in Ids
             /\ reqs[j].key = reqs[reqs[j].src].key
             /\ reqs[j].age < 10
             /\ Resp(j).status = 200
             /\ Resp(j).body = Unwrap(reqs[reqs[j].src].fetched)
    /\ \A i \in Ids :
          IsSome(reqs[i].resp) => Resp(i).status \in {200, 403, 502, 500}

(* The upstream answered 404 with a body; the request got 200 with that    *)
(* body and a later request was served the same body from the cache.       *)
C13_Witness ==
    \E i, j \in Ids :
        /\ reqs[i].upstatus = 404
        /\ IsSome(reqs[i].fetched)
        /\ Resp(i).status = 200
        /\ reqs[j].hit /\ reqs[j].src = i
        /\ Resp(j).status = 200
        /\ Resp(j).body = Unwrap(reqs[i].fetched)

(***************************************************************************)
(* C14: a GET request whose Origin header is absent, or holds a byte that  *)
(* is not representable in a header string, is never failed on account of  *)
(* its origin.  It is never denied (whatever the policy would say of its   *)
(* bytes), once past the middleware it has looked up the cache and, on a   *)
(* miss, called the upstream, and every response it gets carries           *)
(* Access-Control-Allow-Origin: *.                                         *)
(***************************************************************************)
C14_NoOriginNoFailure ==
    \A i \in Ids :
        (reqs[i].method = "GET" /\ ~Readable(reqs[i].origin)) =>
           /\ reqs[i].pc # "Denied"
           /\ reqs[i].pc \notin Running =>
                  /\ reqs[i].lookups = 1
                  /\ reqs[i].hit => reqs[i].calls = 0 /\ reqs[i].pc = "Responded"
                  /\ ~reqs[i].hit =>
                         reqs[i].calls = 1 /\ \E c \in outbound : c.by = i
           /\ IsSome(reqs[i].resp) =>
                  /\ Resp(i).status \in {200, 502, 500}
                  /\ Resp(i).headers.acao = <<"*">>

(* A GET without Origin fetched and was answered 200 with the wildcard,    *)
(* and a GET whose Origin is https://evil.com followed by a byte outside   *)
(* visible ASCII was answered 200 with the wildcard from the cache.        *)
C14_Witness ==
    \E i, j \in Ids :
        /\ reqs[i].method = "GET" /\ reqs[i].origin = None
        /\ ~reqs[i].hit /\ reqs[i].pc = "Responded"
        /\ Resp(i).status = 200 /\ Resp(i).headers.acao = <<"*">>
        /\ reqs[j].method = "GET" /\ reqs[j].origin = Some(EVIL_OBS)
        /\ reqs[j].hit /\ reqs[j].pc = "Responded"
        /\ Resp(j).status = 200 /\ Resp(j).headers.acao = <<"*">>

(***************************************************************************)
(* C15: the life of a GET request.  Its handler moves Received -> Denied   *)
(* or Keyed; Keyed -> Responding (a hit) or Fetching; Fetching -> Failed   *)
(* or Storing; Storing -> Responding; and takes no other step.  Here       *)
(* Fetching covers both awaits on the upstream (pc Fetching and Reading),  *)
(* and Storing and Responding are passed through within the step that ends *)
(* at Responded.  The request gets exactly one response, with status 200,  *)
(* 403, 502 or 500, which never changes; it calls the upstream at most     *)
(* once, and only after its own lookup missed; it inserts into the cache   *)
(* at most once, and only with the complete upstream body in hand.         *)
(***************************************************************************)
LifeSteps ==
    {<<"Received", "Denied">>, <<"Received", "Keyed">>,
     <<"Keyed", "Responded">>, <<"Keyed", "Fetching">>,
     <<"Fetching", "Failed">>, <<"Fetching", "Reading">>,
     <<"Reading", "Failed">>, <<"Reading", "Responded">>}

LifeState(i) ==
    LET r == reqs[i]
    IN  /\ r.pc \in {"Received", "Denied", "Keyed", "Fetching", "Reading",
                      "Responded", "Failed"}
        /\ IsSome(r.resp) <=> r.pc \in {"Denied", "Responded", "Failed"}
        /\ r.pc = "Denied" => Resp(i).status = 403
        /\ r.pc = "Failed" => Resp(i).status \in {502, 500}
        /\ r.pc = "Responded" => Resp(i).status = 200
        /\ r.calls \in {0, 1} /\ r.inserts \in {0, 1} /\ r.lookups \in {0, 1}
        /\ r.calls = 1 => r.lookups = 1 /\ ~r.hit
        /\ r.calls = 1 <=> \E c \in outbound : c.by = i
        /\ r.inserts = 1 => r.calls = 1 /\ IsSome(r.fetched) /\ r.pc = "Responded"
        /\ r.pc = "Responded" => r.hit \/ r.inserts = 1

LifeStep(i) ==
    LET r == reqs[i]
        n == reqs'[i]
    IN  /\ n.pc # r.pc => <<r.pc, n.pc>> \in LifeSteps
        /\ IsSome(r.resp) => n.resp = r.resp
        /\ n.calls # r.calls =>
               /\ r.pc = "Keyed" /\ n.pc = "Fetching"
               /\ n.lookups = 1 /\ ~n.hit
        /\ n.inserts # r.inserts =>
               /\ r.pc = "Reading" /\ n.pc = "Responded"
               /\ IsSome(n.fetched)
               /\ Unwrap(n.resp).body = Unwrap(n.fetched)
        /\ (r.pc = "Keyed" /\ n.pc = "Responded") => n.hit /\ n.calls = 0

C15_RequestLife ==
    /\ [](\A i \in Ids : reqs[i].method = "GET" => LifeState(i))
    /\ [][\A i \in Ids : reqs[i].method = "GET" => LifeStep(i)]_vars

(* A GET request went Received, Keyed, Fetching, Storing, Responding and   *)
(* another went Received, Keyed, Fetching, Failed.                         *)
C15_Witness ==
    \E i, j \in Ids :
        /\ reqs[i].method = "GET" /\ reqs[i].pc = "Responded"
        /\ reqs[i].calls = 1 /\ reqs[i].inserts = 1
        /\ reqs[j].method = "GET" /\ reqs[j].pc = "Failed"
        /\ reqs[j].calls = 1 /\ reqs[j].inserts = 0

(***************************************************************************)
(* C16: every admitted GET request that enters Fetching eventually reaches *)
(* a terminal state (200, 502 or 500), even when the upstream never        *)
(* replies.                                                                *)
(***************************************************************************)
InFetching(i) == IF i \in Ids THEN reqs[i].pc = "Fetching" ELSE FALSE

Ended(i) == IF i \in Ids THEN reqs[i].pc \in {"Responded", "Failed"} ELSE FALSE

C16_FetchingEnds == \A i \in 1..MaxReq : InFetching(i) ~> Ended(i)

(***************************************************************************)
(* C17: under a stampede each handler inserts its own body and the last    *)
(* insertion wins.  Every insertion replaces the entry of its fingerprint  *)
(* by the inserting handler's own body with age zero; hence the entry is   *)
(* always the body of the latest insertion under that fingerprint and its  *)
(* age is the time since that insertion; and every handler that missed     *)
(* returned the body it fetched itself.                                    *)
(***************************************************************************)
Inserted(k) == {i \in Ids : reqs[i].inserts > 0 /\ reqs[i].key = Some(k)}

LastWins ==
    /\ \A k \in DOMAIN cache :
          /\ cache[k].by \in Inserted(k)
          /\ cache[k].body = Unwrap(reqs[cache[k].by].fetched)
          /\ cache[k].age = reqs[cache[k].by].insAge
          /\ \A i \in Inserted(k) : cache[k].age <= reqs[i].insAge
    /\ \A i \in Ids :
          (reqs[i].pc = "Responded" /\ ~reqs[i].hit) =>
             /\ reqs[i].inserts = 1
             /\ Resp(i).body = Unwrap(reqs[i].fetched)

InsertReplaces ==
    \A i \in Ids :
        reqs'[i].inserts # reqs[i].inserts =>
           /\ Unwrap(reqs[i].key) \in DOMAIN cache'
           /\ cache'[Unwrap(reqs[i].key)] =
                  [body |-> Unwrap(reqs'[i].fetched), age |-> 0, by |-> i]
           /\ Unwrap(reqs'[i].resp).body = Unwrap(reqs'[i].fetched)

C17_LastInsertionWins == []LastWins /\ [][InsertReplaces]_vars

(* Two requests found no entry, fetched different bodies and inserted them *)
(* at different times; both have finished, each with its own body, and the *)
(* entry holds the later one's body with the age of the later insertion.   *)
C17_Witness ==
    \E i, j \in Ids, k \in DOMAIN cache :
        /\ reqs[i].key = Some(k) /\ reqs[j].key = Some(k)
        /\ reqs[i].pc = "Responded" /\ reqs[j].pc = "Responded"
        /\ ~reqs[i].hit /\ ~reqs[j].hit
        /\ reqs[i].age = -1 /\ reqs[j].age = -1
        /\ reqs[i].fetched # reqs[j].fetched
        /\ Resp(i).body = Unwrap(reqs[i].fetched)
        /\ Resp(j).body = Unwrap(reqs[j].fetched)
        /\ reqs[j].insAge < reqs[i].insAge
        /\ cache[k].by = j
        /\ cache[k].body = Unwrap(reqs[j].fetched)
        /\ cache[k].age = reqs[j].insAge

(***************************************************************************)
(* C18: each cache entry stored under a fingerprint is a body the upstream *)
(* returned for a GET of the upstream URL built from that fingerprint; a   *)
(* request never receives a body fetched for a different path or query;    *)
(* and two requests that differ only in their query, when both miss, make  *)
(* two upstream calls to distinct URLs and occupy two distinct entries.    *)
(***************************************************************************)
C18_BodiesMatchTargets ==
    /\ \A k \in DOMAIN cache :
          \E c \in outbound :
             /\ c.by = cache[k].by
             /\ c.url = BASE_URL \o k
             /\ reqs[c.by].fetched = Some(cache[k].body)
    /\ \A i \in Served :
          /\ reqs[Source(i)].path = reqs[i].path
          /\ reqs[Source(i)].query = reqs[i].query
          /\ Resp(i).body = Unwrap(reqs[Source(i)].fetched)
    /\ \A i, j \in Ids :
          (/\ reqs[i].path = reqs[j].path
           /\ reqs[i].query # reqs[j].query
           /\ IsSome(reqs[i].key) /\ IsSome(reqs[j].key)) =>
             /\ reqs[i].key # reqs[j].key
             /\ ~reqs[i].hit /\ ~reqs[j].hit =>
                    \E c, d \in outbound : c.by = i /\ d.by = j /\ c.url # d.url
             /\ reqs[i].inserts = 1 /\ reqs[j].inserts = 1 =>
                    {Unwrap(reqs[i].key), Unwrap(reqs[j].key)} \subseteq DOMAIN cache
====
